---- MODULE Spec2Model ----
(***************************************************************************)
(* Model of main.py: a scheduler thread that runs fetch_news (once in      *)
(* bootstrap mode, then periodically in steady-state mode) against the     *)
(* in-memory store (seen_posts, seen_ids), the persisted file              *)
(* seen_posts.json and last_check_time, next to the webhook handlers       *)
(* check_command and lastnew_command that run on the server's threads.     *)
(*                                                                         *)
(* Python strings are sequences of one-character strings, so that          *)
(* parse_date and the id construction work on the characters.              *)
(***************************************************************************)
EXTENDS Integers, Sequences, FiniteSets, TLC

\* ---------------------------------------------------------------- bounds
\* longest list of headings a fetched page carries
MaxScrape == 2
\* number of fetch cycles the scheduler thread starts in one run of the model
MaxClock == 3
\* number of times the process is stopped and started again
MaxRestarts == 1

\* ------------------------------------------------------------ characters
DigitChars == <<"0", "1", "2", "3", "4", "5", "6", "7", "8", "9">>

IsDigit(c) == \E i \in 1..Len(DigitChars) : DigitChars[i] = c

DigitVal(c) == (CHOOSE i \in 1..Len(DigitChars) : DigitChars[i] = c) - 1

UpperChars == <<"A", "B", "C", "D", "E", "F", "G", "H", "I", "J", "K", "L", "M",
                "N", "O", "P", "Q", "R", "S", "T", "U", "V", "W", "X", "Y", "Z">>

LowerChars == <<"a", "b", "c", "d", "e", "f", "g", "h", "i", "j", "k", "l", "m",
                "n", "o", "p", "q", "r", "s", "t", "u", "v", "w", "x", "y", "z">>

\* str.lower() on one character
LowerChar(c) ==
    IF \E i \in 1..Len(UpperChars) : UpperChars[i] = c
    THEN LowerChars[CHOOSE i \in 1..Len(UpperChars) : UpperChars[i] = c]
    ELSE c

\* date_str.replace(' ', '').lower()
RECURSIVE CleanDate(_)
CleanDate(s) ==
    IF s = <<>> THEN <<>>
    ELSE IF Head(s) = " " THEN CleanDate(Tail(s))
    ELSE <<LowerChar(Head(s))>> \o CleanDate(Tail(s))

\* the segments of s between the '/' characters
RECURSIVE SplitSlash(_, _)
SplitSlash(s, cur) ==
    IF s = <<>> THEN <<cur>>
    ELSE IF Head(s) = "/" THEN <<cur>> \o SplitSlash(Tail(s), <<>>)
    ELSE SplitSlash(Tail(s), Append(cur, Head(s)))

AllDigits(s) == \A i \in 1..Len(s) : IsDigit(s[i])

RECURSIVE NumVal(_)
NumVal(s) == IF s = <<>> THEN 0 ELSE NumVal(SubSeq(s, 1, Len(s) - 1)) * 10 + DigitVal(s[Len(s)])

\* %d : 3[0-1] | [1-2]\d | 0[1-9] | [1-9]
MatchesDay(s) == /\ Len(s) \in {1, 2}
                 /\ AllDigits(s)
                 /\ NumVal(s) >= 1
                 /\ NumVal(s) <= 31

\* %m : 1[0-2] | 0[1-9] | [1-9]
MatchesMonth(s) == /\ Len(s) \in {1, 2}
                   /\ AllDigits(s)
                   /\ NumVal(s) >= 1
                   /\ NumVal(s) <= 12

\* %Y : \d\d\d\d
MatchesYear(s) == Len(s) = 4 /\ AllDigits(s)

IsLeap(y) == (y % 4 = 0 /\ y % 100 # 0) \/ y % 400 = 0

DaysInMonth(y, m) ==
    IF m = 2 THEN (IF IsLeap(y) THEN 29 ELSE 28)
    ELSE IF m \in {4, 6, 9, 11} THEN 30 ELSE 31

\* Python's None; a datetime is the tuple <<year, month, day>>
None == <<>>

\* datetime(year, month, day): ValueError (None here) outside the calendar
MakeDate(y, m, d) ==
    IF y >= 1 /\ m >= 1 /\ m <= 12 /\ d >= 1 /\ d <= DaysInMonth(y, m)
    THEN <<y, m, d>> ELSE None

\* datetime.strptime(clean, fmt) for fmt '%d/%m/%Y' (dayFirst) or '%m/%d/%Y';
\* None stands for the ValueError
Strptime(clean, dayFirst) ==
    LET seg == SplitSlash(clean, <<>>) IN
    IF Len(seg) # 3 THEN None
    ELSE LET ds == IF dayFirst THEN seg[1] ELSE seg[2]
             ms == IF dayFirst THEN seg[2] ELSE seg[1]
         IN IF MatchesDay(ds) /\ MatchesMonth(ms) /\ MatchesYear(seg[3])
            THEN MakeDate(NumVal(seg[3]), NumVal(ms), NumVal(ds))
            ELSE None

\* the formats list with '%m/%d/%Y' put first
DayFirstFormats_monthfirst == <<FALSE, TRUE>>

\* the formats list of parse_date, in the order it is tried
DayFirstFormats == <<TRUE, FALSE>>

Sentinels == {<<"d", "a", "t", "e", "n", "o", "t", "f", "o", "u", "n", "d">>, <<>>}

RECURSIVE TryFormats(_, _)
TryFormats(clean, fmts) ==
    IF fmts = <<>> THEN None
    ELSE IF Strptime(clean, Head(fmts)) # None THEN Strptime(clean, Head(fmts))
    ELSE TryFormats(clean, Tail(fmts))

parse_date(date_str) ==
    LET clean_date == CleanDate(date_str) IN
    IF clean_date \in Sentinels THEN None
    ELSE TryFormats(clean_date, DayFirstFormats)

\* datetime comparison: a < b
DateLess(a, b) ==
    \/ a[1] < b[1]
    \/ a[1] = b[1] /\ a[2] < b[2]
    \/ a[1] = b[1] /\ a[2] = b[2] /\ a[3] < b[3]

\* ------------------------------------------------------------ news items
\* f"{title}{date}", the id without the separator
unique_id_nosep(title, date) == title \o date

\* f"{title}||{date}"
unique_id(title, date) == title \o <<"|", "|">> \o date

NewsItem(title, date, description) ==
    [id |-> unique_id(title, date), title |-> title, date |-> date,
     description |-> description]

Heading(title, date, description) ==
    [has_parent |-> TRUE, title |-> title, date |-> date, description |-> description]

\* the h3 headings a page can carry, each with what the markup around it
\* yields; has_parent is FALSE when find_parent('div', class_='d-flex') finds
\* nothing
Headings ==
    {Heading(<<"A">>, <<"0", "1", "/", "0", "2", "/", "2", "0", "2", "4">>, <<"x">>),
     Heading(<<"B">>, <<"2", "/", "1", "3", "/", "2", "0", "2", "4">>, <<"y">>),
     Heading(<<"A">>, <<"D", "a", "t", "e", " ", "n", "o", "t", " ", "f", "o", "u", "n", "d">>, <<>>),
     [has_parent |-> FALSE, title |-> <<"B">>, date |-> <<>>, description |-> <<>>]}

RECURSIVE SeqsUpTo(_, _)
SeqsUpTo(S, n) ==
    IF n = 0 THEN {<<>>}
    ELSE LET shorter == SeqsUpTo(S, n - 1)
         IN shorter \cup {Append(q, x) : q \in {r \in shorter : Len(r) = n - 1}, x \in S}

\* soup.find_all('h3', class_='mb-0') of the pages the site can answer with
Pages == SeqsUpTo(Headings, MaxScrape)

\* lines 72-83: one item per heading that has its parent container
RECURSIVE Scrape(_)
Scrape(headings) ==
    IF headings = <<>> THEN <<>>
    ELSE LET h3 == Head(headings) IN
         (IF h3.has_parent
          THEN <<NewsItem(h3.title, h3.date, h3.description)>>
          ELSE <<>>) \o Scrape(Tail(headings))

Ids(posts) == {posts[i].id : i \in 1..Len(posts)}

HasDate(p) == parse_date(p.date) # None

NoDate(p) == parse_date(p.date) = None

\* the key order of list.sort(key=parse_date, reverse=True): a goes before b
SortsBefore(a, b) == DateLess(parse_date(b.date), parse_date(a.date))

\* one insertion of the stable sort: p goes behind every element that does
\* not sort after it
RECURSIVE InsertSorted(_, _)
InsertSorted(sorted, p) ==
    IF sorted = <<>> THEN <<p>>
    ELSE IF SortsBefore(p, Head(sorted)) THEN <<p>> \o sorted
    ELSE <<Head(sorted)>> \o InsertSorted(Tail(sorted), p)

RECURSIVE SortByDate(_)
SortByDate(posts) ==
    IF posts = <<>> THEN <<>>
    ELSE InsertSorted(SortByDate(SubSeq(posts, 1, Len(posts) - 1)), posts[Len(posts)])

\* save_seen_posts without its sort: the posts are written as they are
SortedPosts_unsorted(posts) == posts

\* lines 50-53: dated posts, newest first, then the undated ones
SortedPosts(posts) == SortByDate(SelectSeq(posts, HasDate)) \o SelectSeq(posts, NoDate)

\* fetch_news without lines 85-88: the items stay in page order
CanonicalNews_pageorder(news) == news

\* lines 85-88: the same order on the scraped items
CanonicalNews(news) == SortByDate(SelectSeq(news, HasDate)) \o SelectSeq(news, NoDate)

\* ------------------------------------------------------- the persisted file
NoFile == [kind |-> "none", data |-> <<>>]

PostsFile(posts) == [kind |-> "posts", data |-> posts]

\* the legacy layout: a list of bare id strings
LegacyFile(ids) == [kind |-> "legacy", data |-> ids]

\* what is left of the file when the write breaks off after open(..., 'w')
TornFile == [kind |-> "torn", data |-> <<>>]

\* outcomes of open + json.dump: written, open refused, broken off
WriteOutcomes == {"ok", "refused", "torn"}

save_seen_posts(posts, outcome, old) ==
    IF outcome = "ok" THEN PostsFile(SortedPosts(posts))
    ELSE IF outcome = "torn" THEN TornFile
    ELSE old

RECURSIVE Migrate(_)
Migrate(ids) ==
    IF ids = <<>> THEN <<>>
    ELSE <<[id |-> Head(ids), title |-> <<>>, date |-> <<>>, description |-> <<>>]>>
         \o Migrate(Tail(ids))

\* json.load raises on a file that does not hold a JSON document
Loadable(f) == f.kind # "torn"

load_seen_posts(f) ==
    IF f.kind = "none" THEN <<>>
    ELSE IF f.kind = "legacy" THEN Migrate(f.data)
    ELSE f.data

\* the files a first start of the process can find
InitFiles == {NoFile,
              LegacyFile(<<unique_id(<<"A">>,
                           <<"0", "1", "/", "0", "2", "/", "2", "0", "2", "4">>)>>)}

\* ------------------------------------------------------------------ state
VARIABLES
    file,             \* content of seen_posts.json
    seen_posts,       \* the store sequence
    seen_ids,         \* the known-id set
    last_check_time,  \* None or <<time>>
    pc,               \* position of the scheduler thread
    send_last_only,   \* argument of the running (or last) fetch_news call
    all_news,         \* local of fetch_news
    idx,              \* position of the for loop of line 106
    new_found,        \* local of fetch_news
    clock,            \* datetime.now(), counted in fetch cycles
    inflight,         \* fetch_news calls that have not returned
    restarts,         \* process restarts so far
    fetched,          \* how the page fetch of the running (or last) cycle went
    log,              \* send_message and save_seen_posts calls of that cycle
    posts0,           \* seen_posts when that cycle started
    seen0,            \* seen_ids when that cycle started
    file0,            \* file when that cycle started
    time0,            \* last_check_time when that cycle started
    attempts,         \* ids sent by steady-state cycles since the process started
    failed,           \* ids whose steady-state send raised
    q_pc,             \* position of the webhook handler
    reply,            \* last reply_text of a handler
    newest,           \* the item last put into the store, and whether this
                      \* run of the process put it there
    prev,             \* what the cycle before the running one scraped, when
                      \* that was a bootstrap cycle on an empty store
    probe             \* argument and result of a function applied on its own

vars == <<file, seen_posts, seen_ids, last_check_time, pc, send_last_only,
          all_news, idx, new_found, clock, inflight, restarts, probe, newest,
          prev, fetched, log, posts0, seen0, file0, time0, attempts, failed,
          q_pc, reply>>

store == <<file, seen_posts, seen_ids, last_check_time>>

locals == <<send_last_only, all_news, idx, new_found>>

history == <<fetched, log, posts0, seen0, file0, time0, attempts, failed>>

query == <<q_pc, reply>>

SendEvent(id, ok) == [ev |-> "send", id |-> id, ok |-> ok]

SaveEvent(ok) == [ev |-> "save", id |-> <<>>, ok |-> ok]

NoPrev == [seeded |-> FALSE, news |-> <<>>]

NoProbe == [fn |-> "none", arg |-> <<>>, res |-> <<>>, src |-> <<>>]

NoReply == [kind |-> "none", title |-> <<>>, date |-> <<>>, checked |-> <<>>]

\* the module-level statements of lines 25 and 57-58 and the thread start of
\* lines 163-164
Started(f) ==
    /\ seen_posts = load_seen_posts(f)
    /\ seen_ids = Ids(load_seen_posts(f))
    /\ last_check_time = None
    /\ pc = "start"
    /\ send_last_only = TRUE
    /\ all_news = <<>>
    /\ idx = 1
    /\ new_found = FALSE
    /\ inflight = 0
    /\ fetched = "none"
    /\ log = <<>>
    /\ posts0 = load_seen_posts(f)
    /\ seen0 = Ids(load_seen_posts(f))
    /\ file0 = f
    /\ time0 = None
    /\ attempts = <<>>
    /\ failed = {}
    /\ q_pc = "idle"
    /\ reply = NoReply

Init ==
    /\ file \in InitFiles
    /\ clock = 0
    /\ restarts = 0
    /\ newest = [item |-> <<>>, here |-> FALSE]
    /\ prev = NoPrev
    /\ probe = NoProbe
    /\ Started(file)

\* ------------------------------------------------------ the scheduler thread
\* fetch_news returns to run_schedule
Return == pc' = "loop" /\ inflight' = inflight - 1

\* fetch_news without the try of line 62: the exception leaves fetch_news and
\* ends run_schedule, the target of the scheduler thread
Caught_propagates == pc' = "dead" /\ inflight' = inflight - 1

\* lines 120-121: the exception is caught and printed, fetch_news returns
Caught == Return

\* a scheduler that starts a due job without waiting for the running one
SchedulerIdle_overlapping == pc \notin {"start", "crashed"}

\* the scheduler thread is between two jobs, in the loop of lines 158-160
SchedulerIdle == pc = "loop"

\* a call of fetch_news(send_last_only=mode) enters the function
BeginCycle(mode) ==
    /\ clock < MaxClock
    /\ clock' = clock + 1
    /\ inflight' = inflight + 1
    /\ pc' = "get"
    /\ send_last_only' = mode
    /\ all_news' = <<>>
    /\ idx' = 1
    /\ new_found' = FALSE
    /\ fetched' = "pending"
    /\ log' = <<>>
    /\ posts0' = seen_posts
    /\ seen0' = seen_ids
    /\ file0' = file
    /\ time0' = last_check_time
    /\ prev' = IF pc = "loop" /\ send_last_only /\ posts0 = <<>>
                     /\ fetched \in {"ok", "noheadings"}
                THEN [seeded |-> TRUE, news |-> all_news]
                ELSE NoPrev
    /\ UNCHANGED <<store, restarts, probe, newest, attempts, failed, query>>

\* line 157: fetch_news(send_last_only=True), once, before the loop
RunBootstrap ==
    /\ pc = "start"
    /\ BeginCycle(TRUE)

\* the scheduled job registered as fetch_news(send_last_only=True)
RunPending_bootstrap ==
    /\ SchedulerIdle
    /\ BeginCycle(TRUE)

\* line 159: schedule.run_pending() calls the job fetch_news() in this thread
RunPending ==
    /\ SchedulerIdle
    /\ BeginCycle(FALSE)

\* fetch_news with the timestamp taken before the request is made
FetchFails_stamped ==
    /\ pc = "get"
    /\ fetched' = "fail"
    /\ last_check_time' = <<clock>>
    /\ Return
    /\ UNCHANGED <<file, seen_posts, seen_ids, locals, clock, restarts,
                   probe, newest, prev, log, posts0, seen0, file0, time0,
                   attempts, failed, query>>

\* lines 64-65 raise: requests.get times out or fails, or raise_for_status
FetchFails ==
    /\ pc = "get"
    /\ fetched' = "fail"
    /\ Caught
    /\ UNCHANGED <<store, locals, clock, restarts, probe, newest, prev, log,
                   posts0, seen0, file0, time0, attempts, failed, query>>

\* lines 64-70: the page has no h3 heading of class mb-0
NoHeadings ==
    /\ pc = "get"
    /\ fetched' = "noheadings"
    /\ Return
    /\ UNCHANGED <<store, locals, clock, restarts, probe, newest, prev, log,
                   posts0, seen0, file0, time0, attempts, failed, query>>

\* fetch_news without the test of line 92: every cycle goes to the loop
AfterParse_steady(mode) == "for"

\* the statement the cycle goes on with after line 90
AfterParse(mode) == IF mode THEN "boot" ELSE "for"

\* lines 64-90: the page is fetched, scraped and put in canonical order
ParsePage ==
    /\ pc = "get"
    /\ \E headings \in Pages \ {<<>>} :
          all_news' = CanonicalNews(Scrape(headings))
    /\ last_check_time' = <<clock>>
    /\ fetched' = "ok"
    /\ pc' = AfterParse(send_last_only)
    /\ UNCHANGED <<file, seen_posts, seen_ids, send_last_only, idx,
                   new_found, clock, inflight, restarts, probe, newest, prev,
                   log, posts0, seen0, file0, time0, attempts, failed, query>>

\* lines 93-94: the store is empty and is seeded with the scraped items
BootSeed ==
    /\ pc = "boot"
    /\ seen_posts = <<>>
    /\ seen_posts' = all_news
    /\ pc' = "boot_ids"
    /\ newest' = IF all_news = <<>> THEN newest
                  ELSE [item |-> <<all_news[Len(all_news)]>>, here |-> TRUE]
    /\ UNCHANGED <<file, seen_ids, last_check_time, locals, clock, inflight,
                   restarts, probe, prev, history, query>>

\* line 93: the store is not empty
BootKeep ==
    /\ pc = "boot"
    /\ seen_posts # <<>>
    /\ pc' = "boot_send"
    /\ UNCHANGED <<store, locals, clock, inflight, restarts, probe, newest,
                   prev, history, query>>

\* the bootstrap branch without line 95: the ids of the seeded items are not
\* recorded
BootIds_skipped ==
    /\ pc = "boot_ids"
    /\ pc' = "boot_save"
    /\ UNCHANGED <<store, locals, clock, inflight, restarts, probe, newest,
                   prev, history, query>>

\* line 95
BootIds ==
    /\ pc = "boot_ids"
    /\ seen_ids' = Ids(seen_posts)
    /\ pc' = "boot_save"
    /\ UNCHANGED <<file, seen_posts, last_check_time, locals, clock,
                   inflight, restarts, probe, newest, prev, history, query>>

\* line 96: save_seen_posts(seen_posts); a failed write raises into line 120
BootSave ==
    /\ pc = "boot_save"
    /\ \E outcome \in WriteOutcomes :
          /\ file' = save_seen_posts(seen_posts, outcome, file)
          /\ log' = Append(log, SaveEvent(outcome = "ok"))
          /\ IF outcome = "ok"
             THEN pc' = "boot_send" /\ inflight' = inflight
             ELSE Caught
    /\ UNCHANGED <<seen_posts, seen_ids, last_check_time, locals, clock,
                   restarts, probe, newest, prev, fetched, posts0, seen0,
                   file0, time0, attempts, failed, query>>

\* lines 98-103: one message for all_news[0], if there is one
BootSend ==
    /\ pc = "boot_send"
    /\ IF all_news = <<>>
       THEN log' = log /\ Return
       ELSE \E ok \in BOOLEAN :
               /\ log' = Append(log, SendEvent(all_news[1].id, ok))
               /\ IF ok THEN Return ELSE Caught
    /\ UNCHANGED <<store, locals, clock, restarts, probe, newest, prev,
                   fetched, posts0, seen0, file0, time0, attempts, failed,
                   query>>

\* line 107 testing the title, not the id, against the set of ids
IsNew_title(news, ids) == news.title \notin ids

\* line 107: news['id'] not in seen_ids
IsNew(news, ids) == news.id \notin ids

\* line 109 left out: the id is recorded, the item is not
AppendPost_lost(posts, news) == posts

\* line 109
AppendPost(posts, news) == Append(posts, news)

\* line 113 left out: new_found stays False
NeedsSave_never(found) == FALSE

\* line 115 without its test: every steady-state cycle saves
NeedsSave_always(found) == TRUE

\* line 115: if new_found
NeedsSave(found) == found

\* line 107, id already known: the loop goes to the next item
LoopSkip ==
    /\ pc = "for"
    /\ idx <= Len(all_news)
    /\ ~IsNew(all_news[idx], seen_ids)
    /\ idx' = idx + 1
    /\ UNCHANGED <<store, pc, send_last_only, all_news, new_found, clock,
                   inflight, restarts, probe, newest, prev, history, query>>

\* lines 107-108: the id is new and is added to seen_ids
LoopAddId ==
    /\ pc = "for"
    /\ idx <= Len(all_news)
    /\ IsNew(all_news[idx], seen_ids)
    /\ seen_ids' = seen_ids \cup {all_news[idx].id}
    /\ pc' = "append"
    /\ UNCHANGED <<file, seen_posts, last_check_time, locals, clock,
                   inflight, restarts, probe, newest, prev, history, query>>

\* line 109
LoopAppend ==
    /\ pc = "append"
    /\ seen_posts' = AppendPost(seen_posts, all_news[idx])
    /\ pc' = "send"
    /\ newest' = [item |-> <<all_news[idx]>>, here |-> TRUE]
    /\ UNCHANGED <<file, seen_ids, last_check_time, locals, clock, inflight,
                   restarts, probe, prev, history, query>>

\* lines 110-113: bot.send_message; when it raises, line 120 ends the cycle
LoopSend ==
    /\ pc = "send"
    /\ \E ok \in BOOLEAN :
          /\ log' = Append(log, SendEvent(all_news[idx].id, ok))
          /\ attempts' = Append(attempts, all_news[idx].id)
          /\ IF ok
             THEN /\ new_found' = TRUE
                  /\ idx' = idx + 1
                  /\ pc' = "for"
                  /\ UNCHANGED <<inflight, failed>>
             ELSE /\ failed' = failed \cup {all_news[idx].id}
                  /\ Caught
                  /\ UNCHANGED <<new_found, idx>>
    /\ UNCHANGED <<store, send_last_only, all_news, clock, restarts, probe,
                   newest, prev, fetched, posts0, seen0, file0, time0, query>>

\* lines 115-118 with new_found false: nothing to save
LoopEndSame ==
    /\ pc = "for"
    /\ idx > Len(all_news)
    /\ ~NeedsSave(new_found)
    /\ Return
    /\ UNCHANGED <<store, locals, clock, restarts, probe, newest, prev,
                   history, query>>

\* line 115 with new_found true
LoopEndNew ==
    /\ pc = "for"
    /\ idx > Len(all_news)
    /\ NeedsSave(new_found)
    /\ pc' = "save"
    /\ UNCHANGED <<store, locals, clock, inflight, restarts, probe, newest,
                   prev, history, query>>

\* line 116: save_seen_posts(seen_posts); a failed write raises into line 120
Save ==
    /\ pc = "save"
    /\ \E outcome \in WriteOutcomes :
          /\ file' = save_seen_posts(seen_posts, outcome, file)
          /\ log' = Append(log, SaveEvent(outcome = "ok"))
          /\ IF outcome = "ok" THEN Return ELSE Caught
    /\ UNCHANGED <<seen_posts, seen_ids, last_check_time, locals, clock,
                   restarts, probe, newest, prev, fetched, posts0, seen0,
                   file0, time0, attempts, failed, query>>

\* ------------------------------------------------------ the webhook handlers
Alive == pc # "crashed"

Reply(kind, title, date, checked) ==
    [kind |-> kind, title |-> title, date |-> date, checked |-> checked]

\* lines 123-124
check_command ==
    /\ Alive
    /\ q_pc = "idle"
    /\ q_pc' = "replied"
    /\ reply' = Reply("running", <<>>, <<>>, None)
    /\ UNCHANGED <<store, pc, locals, clock, inflight, restarts, probe,
                   newest, prev, history>>

\* line 127: if seen_posts; lines 137-138 when it is empty
LastnewTest ==
    /\ Alive
    /\ q_pc = "idle"
    /\ IF seen_posts # <<>>
       THEN q_pc' = "read" /\ reply' = reply
       ELSE q_pc' = "replied" /\ reply' = Reply("nonews", <<>>, <<>>, None)
    /\ UNCHANGED <<store, pc, locals, clock, inflight, restarts, probe,
                   newest, prev, history>>

\* lastnew_command reading seen_posts[0], the head of the list
LastnewRead_first ==
    /\ Alive
    /\ q_pc = "read"
    /\ q_pc' = "replied"
    /\ IF seen_posts = <<>>
       THEN reply' = Reply("IndexError", <<>>, <<>>, None)
       ELSE reply' = Reply("last", seen_posts[1].title, seen_posts[1].date,
                           last_check_time)
    /\ UNCHANGED <<store, pc, locals, clock, inflight, restarts, probe,
                   newest, prev, history>>

\* lines 128-136: seen_posts[-1] and last_check_time go into the reply
LastnewRead ==
    /\ Alive
    /\ q_pc = "read"
    /\ q_pc' = "replied"
    /\ IF seen_posts = <<>>
       THEN reply' = Reply("IndexError", <<>>, <<>>, None)
       ELSE reply' = Reply("last", seen_posts[Len(seen_posts)].title,
                           seen_posts[Len(seen_posts)].date, last_check_time)
    /\ UNCHANGED <<store, pc, locals, clock, inflight, restarts, probe,
                   newest, prev, history>>

\* line 151: the handler has answered and the webhook request ends
HandlerReturn ==
    /\ Alive
    /\ q_pc = "replied"
    /\ q_pc' = "idle"
    /\ reply' = NoReply
    /\ UNCHANGED <<store, pc, locals, clock, inflight, restarts, probe,
                   newest, prev, history>>

\* ------------------------------------------- the functions on their own
\* unique_id (line 82) and parse_date (lines 27-38) applied to arguments
\* drawn from the sets below, outside any cycle
IdChars == {"A", "|"}

IdStrings == {<<>>} \cup {<<c>> : c \in IdChars}
                   \cup {<<c, d>> : c \in IdChars, d \in IdChars}

\* two (title, date) pairs
IdArgs == {<<t1, d1, t2, d2>> : t1 \in IdStrings, d1 \in IdStrings,
                                t2 \in IdStrings, d2 \in IdStrings}

\* the decimal numeral of n in exactly w characters
RECURSIVE Numeral(_, _)
Numeral(n, w) ==
    IF w = 0 THEN <<>>
    ELSE Numeral(n \div 10, w - 1) \o <<DigitChars[(n % 10) + 1]>>

\* the numeral of a day or month number, zero-padded to two characters or not
Numeral2(n, pad) == IF pad \/ n >= 10 THEN Numeral(n, 2) ELSE Numeral(n, 1)

DayMonthNumbers == {0, 1, 2, 12, 13, 29, 30, 31, 32}

YearNumbers == {0, 1900, 2000, 2023, 2024}

\* the date text "A/B/Y", plain or as " A / B / Y "
DateText(a, b, y, pad, spaced) ==
    IF spaced
    THEN <<" ">> \o Numeral2(a, pad) \o <<" ", "/", " ">> \o Numeral2(b, pad)
               \o <<" ", "/", " ">> \o Numeral(y, 4) \o <<" ">>
    ELSE Numeral2(a, pad) \o <<"/">> \o Numeral2(b, pad) \o <<"/">>
               \o Numeral(y, 4)

\* date texts that are not one or two digits, '/', one or two digits, '/',
\* four digits
OtherDateTexts ==
    { <<>>, <<" ">>, <<" ", " ">>,
      <<"D","a","t","e"," ","n","o","t"," ","f","o","u","n","d">>,
      <<"d","a","t","e"," ","n","o","t"," ","f","o","u","n","d">>,
      <<"D","A","T","E"," ","N","O","T"," ","F","O","U","N","D">>,
      <<"D","a","t","e","N","o","t","F","o","u","n","d">>,
      <<"D","a","t","e"," ","f","o","u","n","d">>,
      <<"1","/","2">>, <<"1","/","2","/","2","4">>,
      <<"1","/","2","/","2","0","2","4","/">>,
      <<"/","1","/","2","/","2","0","2","4">>,
      <<"1","/","/","2","0","2","4">>,
      <<"0","0","1","/","2","/","2","0","2","4">>,
      <<"1","/","2","/","0","2","0","2","4">>,
      <<"2","0","2","4","/","1","/","2">>,
      <<"1","-","2","-","2","0","2","4">>,
      <<"1","/","2","/","2","o","2","4">>,
      <<"1","3","/","F","e","b","/","2","0","2","4">>,
      <<"t","o","d","a","y">> }

\* what a call is made with: the arguments, and for a date text the numbers
\* it was written from
ProbeInputs ==
    { [fn |-> "none", arg |-> a, res |-> <<>>, src |-> <<>>] : a \in IdArgs }
    \cup { [fn |-> "none", arg |-> <<DateText(a, b, y, pad, spaced)>>,
            res |-> <<>>, src |-> <<a, b, y>>] :
               a \in DayMonthNumbers, b \in DayMonthNumbers,
               y \in YearNumbers, pad \in BOOLEAN, spaced \in BOOLEAN }
    \cup { [fn |-> "none", arg |-> <<t>>, res |-> <<>>, src |-> <<>>] :
               t \in OtherDateTexts }

PureInit ==
    /\ file = NoFile
    /\ clock = 0
    /\ restarts = 0
    /\ newest = [item |-> <<>>, here |-> FALSE]
    /\ prev = NoPrev
    /\ probe \in ProbeInputs
    /\ Started(file)

\* line 82 run for two items
CallUniqueId ==
    /\ probe.fn = "none"
    /\ Len(probe.arg) = 4
    /\ probe' = [probe EXCEPT !.fn = "unique_id",
                  !.res = <<unique_id(probe.arg[1], probe.arg[2]),
                            unique_id(probe.arg[3], probe.arg[4])>>]
    /\ UNCHANGED <<store, pc, locals, clock, inflight, restarts, newest,
                   prev, history, query>>

\* parse_date(date_str), lines 27-38, called for one text
CallParseDate ==
    /\ probe.fn = "none"
    /\ Len(probe.arg) = 1
    /\ probe' = [probe EXCEPT !.fn = "parse_date",
                  !.res = <<parse_date(probe.arg[1])>>]
    /\ UNCHANGED <<store, pc, locals, clock, inflight, restarts, newest,
                   prev, history, query>>

PureNext == CallUniqueId \/ CallParseDate

PureSpec == PureInit /\ [][PureNext]_vars

\* ----------------------------------------------------------------- restart
\* the process stops at any point and is started again: lines 25, 57-58 and
\* 163-164 run on the file as it is; a file json.load cannot read ends the
\* start
Restart ==
    /\ Alive
    /\ restarts < MaxRestarts
    /\ restarts' = restarts + 1
    /\ newest' = [newest EXCEPT !.here = FALSE]
    /\ prev' = NoPrev
    /\ probe' = probe
    /\ seen_posts' = IF Loadable(file) THEN load_seen_posts(file) ELSE <<>>
    /\ seen_ids' = IF Loadable(file) THEN Ids(load_seen_posts(file)) ELSE {}
    /\ last_check_time' = None
    /\ pc' = IF Loadable(file) THEN "start" ELSE "crashed"
    /\ send_last_only' = TRUE
    /\ all_news' = <<>>
    /\ idx' = 1
    /\ new_found' = FALSE
    /\ inflight' = 0
    /\ fetched' = "none"
    /\ log' = <<>>
    /\ posts0' = seen_posts'
    /\ seen0' = seen_ids'
    /\ file0' = file
    /\ time0' = None
    /\ attempts' = <<>>
    /\ failed' = {}
    /\ q_pc' = "idle"
    /\ reply' = NoReply
    /\ UNCHANGED <<file, clock>>

Next ==
    \/ RunBootstrap
    \/ RunPending
    \/ FetchFails
    \/ NoHeadings
    \/ ParsePage
    \/ BootSeed
    \/ BootKeep
    \/ BootIds
    \/ BootSave
    \/ BootSend
    \/ LoopSkip
    \/ LoopAddId
    \/ LoopAppend
    \/ LoopSend
    \/ LoopEndSame
    \/ LoopEndNew
    \/ Save
    \/ check_command
    \/ LastnewTest
    \/ LastnewRead
    \/ HandlerReturn
    \/ Restart

Spec == Init /\ [][Next]_vars

\* ------------------------------------------------------------ properties
\* a fetch cycle has ended and the scheduler thread is back in its loop
CycleOver == pc = "loop"

SendIndexes == {i \in 1..Len(log) : log[i].ev = "send"}

SaveIndexes == {i \in 1..Len(log) : log[i].ev = "save"}

AllSendsOk == \A i \in SendIndexes : log[i].ok

SaveFailed == \E i \in SaveIndexes : ~log[i].ok

SaveDone == \E i \in SaveIndexes : log[i].ok

Occurrences(seq, x) == Cardinality({i \in 1..Len(seq) : seq[i] = x})

IsPermutation(a, b) ==
    /\ Len(a) = Len(b)
    /\ \A i \in 1..Len(a) : Occurrences(a, a[i]) = Occurrences(b, a[i])

\* every item of news is in posts
ContainsAll(posts, news) ==
    \A i \in 1..Len(news) : \E k \in 1..Len(posts) : posts[k] = news[i]

\* dated items first, newest first, then the undated ones
InDateOrder(posts) ==
    \A i, j \in 1..Len(posts) :
        i < j => /\ NoDate(posts[i]) => NoDate(posts[j])
                 /\ (HasDate(posts[i]) /\ HasDate(posts[j]))
                        => ~DateLess(parse_date(posts[i].date), parse_date(posts[j].date))

\* the ids the cycle scraped that were not known when it started
NewIds == Ids(all_news) \ seen0

\* C1: a steady-state cycle whose fetch and sends all succeed and that scraped
\* N >= 1 distinct unknown ids has sent exactly N notifications, one per such
\* id, and has called save_seen_posts exactly once, after the last send.
C1_OneSendPerNewIdOneSave ==
    (CycleOver /\ ~send_last_only /\ fetched = "ok" /\ AllSendsOk /\ NewIds # {})
    => /\ Cardinality(SendIndexes) = Cardinality(NewIds)
       /\ {log[i].id : i \in SendIndexes} = NewIds
       /\ Cardinality(SaveIndexes) = 1
       /\ log[Len(log)].ev = "save"
       /\ log[Len(log)].ok => file.kind = "posts" /\ IsPermutation(file.data, seen_posts)

C1_Witness ==
    /\ CycleOver /\ ~send_last_only /\ fetched = "ok" /\ AllSendsOk
    /\ Cardinality(NewIds) >= 2
    /\ Len(log) = Cardinality(NewIds) + 1
    /\ log[Len(log)] = SaveEvent(TRUE)

\* C2: a steady-state cycle whose fetch succeeds and whose scraped ids are all
\* known sends nothing, does not write the file and leaves the store sequence
\* and the known-id set as they were.
C2_NothingNewNothingDone ==
    (CycleOver /\ ~send_last_only /\ fetched \in {"ok", "noheadings"}
       /\ Ids(all_news) \subseteq seen0)
    => /\ log = <<>>
       /\ file = file0
       /\ seen_posts = posts0
       /\ seen_ids = seen0

C2_Witness ==
    /\ CycleOver /\ ~send_last_only /\ fetched = "ok"
    /\ all_news # <<>>
    /\ Ids(all_news) \subseteq seen0
    /\ log = <<>>

\* what C3 says of the end of a bootstrap cycle on an empty store
BootstrapSeeded ==
    /\ Cardinality(SendIndexes) = 1
    /\ \A i \in SendIndexes : log[i].id = all_news[1].id
    /\ InDateOrder(all_news)
    /\ ContainsAll(seen_posts, all_news)
    /\ Ids(all_news) \subseteq seen_ids
    /\ file.kind = "posts"
    /\ ContainsAll(file.data, all_news)

BootstrapOnEmpty ==
    /\ CycleOver /\ send_last_only /\ fetched = "ok"
    /\ posts0 = <<>>
    /\ all_news # <<>>

\* C3 as claimed: every bootstrap cycle that starts with an empty store and
\* scrapes a non-empty list sends exactly one notification, for the first item
\* of the canonical order, and ends with store, id set and file holding every
\* scraped item.
C3_AsClaimed == BootstrapOnEmpty => BootstrapSeeded

\* C3 as amended: this holds when the write of line 96 succeeds; when it fails
\* the store sequence and the id set still hold every scraped item, but no
\* notification is sent and the file does not hold the new store.
C3_BootstrapSeedsAndSendsOne ==
    BootstrapOnEmpty
    => /\ SaveDone => BootstrapSeeded
       /\ SaveFailed => /\ SendIndexes = {}
                        /\ ContainsAll(seen_posts, all_news)
                        /\ Ids(all_news) \subseteq seen_ids
                        /\ file \in {file0, TornFile}
       /\ SaveDone \/ SaveFailed

C3_Witness ==
    /\ BootstrapOnEmpty
    /\ SaveDone
    /\ Len(all_news) >= 2
    /\ HasDate(all_news[1])
    /\ NoDate(all_news[2])
    /\ Cardinality(SendIndexes) = 1

\* C4: a cycle whose page fetch fails ends with store sequence, id set, file
\* and last_check_time as they were and with nothing sent, in either mode.
C4_FetchFailureChangesNothing ==
    (CycleOver /\ fetched = "fail")
    => /\ seen_posts = posts0
       /\ seen_ids = seen0
       /\ file = file0
       /\ last_check_time = time0
       /\ log = <<>>

C4_Witness ==
    /\ CycleOver /\ fetched = "fail"
    /\ ~send_last_only
    /\ seen_posts # <<>>
    /\ last_check_time # None

\* C5: since the process started, the steady-state cycles have attempted at
\* most one notification per id, and every id they attempted one for is in the
\* known-id set and has its item in the store sequence, also when the send
\* failed.
C5_AtMostOneAttemptPerId ==
    \A i \in 1..Len(attempts) :
        /\ Occurrences(attempts, attempts[i]) = 1
        /\ attempts[i] \in seen_ids
        /\ attempts[i] \in Ids(seen_posts)

\* a later steady-state cycle scraped an id whose send had failed and did not
\* send it again
C5_Witness ==
    /\ CycleOver /\ ~send_last_only /\ fetched = "ok"
    /\ \E id \in failed :
          /\ id \in Ids(all_news)
          /\ \A i \in SendIndexes : log[i].id # id
          /\ Occurrences(attempts, id) = 1

\* the cycle that has ended was a steady-state one that added to the store
SteadyCycleAdded ==
    /\ CycleOver /\ ~send_last_only /\ fetched = "ok"
    /\ seen_posts # posts0

FileHoldsStore == file.kind = "posts" /\ IsPermutation(file.data, seen_posts)

\* C6: every steady-state cycle that added an item to the store ends with the
\* file holding the full store, a send that raised not standing in the way
\* (stated for the cycles in which no write of the file fails).
C6_AddedMeansPersisted == (SteadyCycleAdded /\ ~SaveFailed) => FileHoldsStore

\* C7: every cycle whose page was retrieved and parsed, a page without any
\* headline included, has set last_check_time to the time of the cycle.
C7_ParsedMeansStamped ==
    (CycleOver /\ fetched \in {"ok", "noheadings"}) => last_check_time = <<clock>>

\* C8: at most one execution of fetch_news is in flight, whatever the
\* scheduler thread and the webhook handlers do.
C8_OneCycleInFlight == inflight <= 1

\* a steady-state cycle and a lastnew handler are under way together
C8_Witness ==
    /\ inflight = 1
    /\ pc = "send"
    /\ q_pc = "read"

\* C9: whenever no fetch cycle is in flight, the known-id set is the set of
\* the ids of the items of the store sequence.
C9_IdsMatchStoreBetweenCycles ==
    (Alive /\ inflight = 0) => seen_ids = Ids(seen_posts)

\* a cycle that added an item was aborted by the failure of its send
C9_Witness ==
    /\ CycleOver /\ inflight = 0
    /\ log # <<>>
    /\ log[Len(log)].ev = "send"
    /\ ~log[Len(log)].ok
    /\ ~send_last_only
    /\ Len(seen_posts) > Len(posts0)

\* C10: after a save the file is a permutation of the saved store in which
\* the dated items come first, newest first, and the undated ones after them.
C10_SavedFileInDateOrder ==
    SaveDone => /\ file.kind = "posts"
                /\ IsPermutation(file.data, seen_posts)
                /\ InDateOrder(file.data)

\* the save put three items in an order that is not the order of the store
C10_Witness ==
    /\ SaveDone
    /\ Len(file.data) >= 3
    /\ file.data # seen_posts
    /\ \E i, j \in 1..Len(file.data) :
          /\ HasDate(file.data[i])
          /\ HasDate(file.data[j])
          /\ DateLess(parse_date(file.data[j].date), parse_date(file.data[i].date))
    /\ \E i \in 1..Len(file.data) : NoDate(file.data[i])

\* ---------------------------------------------------------------------- C11
InStore(item) == \E i \in 1..Len(seen_posts) : seen_posts[i] = item

Reports(r, item) == r.kind = "last" /\ r.title = item.title /\ r.date = item.date

\* C11 as claimed: the "last news" query on a non-empty store reports the item
\* most recently appended to the store, also after a restart that reloaded the
\* store, with last_check_time; on an empty store it reports that there is no
\* news yet
C11_AsClaimed ==
    [][ /\ LastnewRead =>
            /\ (newest.item # <<>> /\ InStore(newest.item[1]))
                   => Reports(reply', newest.item[1])
            /\ reply'.checked = last_check_time
        /\ (LastnewTest /\ seen_posts = <<>>) => reply'.kind = "nonews" ]_vars

\* C11 amended: the query reports the last element of the store sequence, which
\* is the item the running process appended last if it appended any and the
\* last item of the store as loaded at start otherwise, with last_check_time,
\* which is unknown exactly when no cycle of the running process has passed
\* line 90; on an empty store it reports that there is no news yet
C11_LastnewReportsLastOfStore ==
    [][ /\ LastnewRead =>
            /\ newest.here => Reports(reply', newest.item[1])
            /\ ~newest.here => Reports(reply', posts0[Len(posts0)])
            /\ reply'.checked = last_check_time
            /\ reply'.checked = None => (fetched # "ok" /\ time0 = None)
            /\ fetched = "ok" => reply'.checked # None
        /\ (LastnewTest /\ seen_posts = <<>>) => reply'.kind = "nonews" ]_vars

\* a query has answered with an item this process appended, after a check
C11_Witness ==
    /\ q_pc = "replied"
    /\ reply.kind = "last"
    /\ newest.here
    /\ Len(seen_posts) >= 2
    /\ reply.checked # None

\* ---------------------------------------------------------------------- C12
HasBar(str) == \E i \in 1..Len(str) : str[i] = "|"

SamePair == probe.arg[1] = probe.arg[3] /\ probe.arg[2] = probe.arg[4]

\* C12 as claimed: for all titles and dates, also ones that contain the
\* separator character, two items have the same id exactly when they have the
\* same title and the same date
C12_AsClaimed ==
    probe.fn = "unique_id" => (probe.res[1] = probe.res[2] <=> SamePair)

\* C12 amended: items with the same title and date have the same id, and items
\* that differ in title or date have different ids when neither title
\* contains the character '|'
C12_IdInjectiveOnBarFreeTitles ==
    probe.fn = "unique_id" =>
        /\ SamePair => probe.res[1] = probe.res[2]
        /\ (~HasBar(probe.arg[1]) /\ ~HasBar(probe.arg[3]) /\ ~SamePair)
               => probe.res[1] # probe.res[2]

\* ids computed for two different items whose dates contain '|' and whose
\* titles do not
C12_Witness ==
    /\ probe.fn = "unique_id"
    /\ ~SamePair
    /\ ~HasBar(probe.arg[1]) /\ ~HasBar(probe.arg[3])
    /\ HasBar(probe.arg[2]) /\ HasBar(probe.arg[4])
    /\ probe.arg[1] # probe.arg[3]
    /\ probe.res[1] # probe.res[2]

\* ---------------------------------------------------------------------- C13
\* the reference of the claim, on the numbers A, B, Y the text was written from
RefMonthLengths == <<31, 28, 31, 30, 31, 30, 31, 31, 30, 31, 30, 31>>

RefLeapYear(y) == y % 400 = 0 \/ (y % 4 = 0 /\ y % 100 # 0)

RefValid(day, month, year) ==
    /\ year \in 1..9999
    /\ month \in 1..12
    /\ day >= 1
    /\ day <= RefMonthLengths[month] + (IF month = 2 /\ RefLeapYear(year) THEN 1 ELSE 0)

RefParse(src) ==
    IF src = <<>> THEN None
    ELSE IF RefValid(src[1], src[2], src[3]) THEN <<src[3], src[2], src[1]>>
    ELSE IF RefValid(src[2], src[1], src[3]) THEN <<src[3], src[1], src[2]>>
    ELSE None

\* C13: on a text A/B/Y (one or two digits, one or two digits, four digits,
\* spaces ignored) parse_date returns the date read as day/month/year when
\* that is a calendar date, else the date read as month/day/year when that is
\* one, and on every other text, the empty and blank ones and "Date not
\* found" in any case included, it returns None
C13_ParseDateAgreesWithReference ==
    probe.fn = "parse_date" => probe.res[1] = RefParse(probe.src)

\* a text both readings accept has been parsed as day/month/year
C13_Witness ==
    /\ probe.fn = "parse_date"
    /\ probe.src # <<>>
    /\ probe.src[1] # probe.src[2]
    /\ RefValid(probe.src[1], probe.src[2], probe.src[3])
    /\ RefValid(probe.src[2], probe.src[1], probe.src[3])
    /\ probe.res[1] = <<probe.src[3], probe.src[2], probe.src[1]>>

\* ---------------------------------------------------------------------- C14
\* the cycle last begun has hit a failure: the request, a send or the save
CycleFailed == fetched = "fail" \/ \E i \in 1..Len(log) : ~log[i].ok

\* C14: whatever fails inside a cycle, fetch_news returns: the scheduler
\* thread is back in its loop with no cycle in flight, and the next tick can
\* run a cycle again
C14_FailedTickLeavesLoopRunning ==
    CycleFailed =>
        /\ pc = "loop"
        /\ inflight = 0
        /\ clock < MaxClock => ENABLED RunPending

\* a send failed in an earlier cycle, a later cycle ran, failed at the
\* request, and the loop still runs
C14_Witness ==
    /\ failed # {}
    /\ fetched = "fail"
    /\ ~send_last_only
    /\ pc = "loop"
    /\ inflight = 0

\* ---------------------------------------------------------------------- C15
\* C15: a steady-state cycle that scrapes what the bootstrap cycle before it
\* scraped on an empty store sends nothing and does not write the file
C15_SameScrapeAfterBootstrapIsSilent ==
    (/\ CycleOver
     /\ ~send_last_only
     /\ prev.seeded
     /\ fetched = "ok"
     /\ all_news = prev.news)
        => (log = <<>> /\ file = file0 /\ seen_posts = posts0)

\* such a cycle has run on a scrape of two items, one of them without a date
C15_Witness ==
    /\ CycleOver
    /\ ~send_last_only
    /\ prev.seeded
    /\ fetched = "ok"
    /\ all_news = prev.news
    /\ Len(all_news) = 2
    /\ \E i \in 1..2 : parse_date(all_news[i].date) = None

\* ---------------------------------------------------------------------- C16
\* a call of fetch_news is entered in this step
CycleBegins == pc' = "get" /\ pc # "get"

\* C16: the first cycle a started process runs, and only that one, is a
\* bootstrap cycle, and a cycle begins only when none is in flight, so the
\* bootstrap cycle has returned before any steady-state cycle starts
C16_OneBootstrapThenSteady ==
    [][CycleBegins =>
          /\ send_last_only' <=> pc = "start"
          /\ pc = "start" <=> fetched = "none"
          /\ inflight = 0
          /\ inflight' = 1]_vars

\* a steady-state cycle is running, after the bootstrap cycle and another
\* steady-state cycle
C16_Witness ==
    /\ pc = "for"
    /\ ~send_last_only
    /\ clock = 3
    /\ restarts = 0
    /\ inflight = 1

\* ---------------------------------------------------------------------- C17
\* a bootstrap cycle that began on a non-empty store has returned, past
\* line 90
BootstrapOnStoreOver ==
    /\ CycleOver
    /\ send_last_only
    /\ fetched = "ok"
    /\ posts0 # <<>>

\* C17: a bootstrap cycle that starts with a non-empty store leaves store,
\* ids and file as they were, whatever it scraped, and sends one message, for
\* the first item of the canonical list, if that list is not empty, and none
\* if it is
C17_BootstrapOnStoreOnlySendsFirst ==
    BootstrapOnStoreOver =>
        /\ seen_posts = posts0
        /\ seen_ids = seen0
        /\ file = file0
        /\ SaveIndexes = {}
        /\ all_news = <<>> => log = <<>>
        /\ all_news # <<>> =>
              /\ Len(log) = 1
              /\ log[1].ev = "send"
              /\ log[1].id = all_news[1].id
              /\ InDateOrder(all_news)

\* such a cycle has scraped two items the store does not know and has sent
\* one message
C17_Witness ==
    /\ BootstrapOnStoreOver
    /\ Len(all_news) = 2
    /\ \A i \in 1..2 : all_news[i].id \notin seen_ids
    /\ Len(log) = 1

\* ---------------------------------------------------------------------- C18
\* C18: at every point in time, also when a write breaks off, the file holds
\* the complete store saved before (the file the cycle or the process
\* started with) or the complete store being saved, never a partial one
C18_SaveIsAllOrNothing ==
    \/ file = file0
    \/ file = PostsFile(SortedPosts(seen_posts))

\* ---------------------------------------------------------------------- C19
\* C19: whenever a "last news" query takes a step (the test of line 127 or
\* the read of line 128) the ids of the store sequence are the known-id set,
\* and the read of line 128 finds an item
C19_QueryReadsConsistentStore ==
    [][(LastnewTest \/ LastnewRead) =>
          /\ seen_ids = Ids(seen_posts)
          /\ reply'.kind # "IndexError"]_vars

\* ---------------------------------------------------------------------- C20
\* C20: the store sequence never holds two items with the same id
C20_StoreHasNoDuplicateIds ==
    \A i, j \in 1..Len(seen_posts) :
        seen_posts[i].id = seen_posts[j].id => i = j

====
